---- MODULE Spec2Model ----
(***************************************************************************)
(* SchedulerService (src/src/modules/scheduler/scheduler.service.ts): an   *)
(* in-process task scheduler with a concurrency gate, deduplication by     *)
(* key, retries with backoff and a graceful shutdown.                      *)
(*                                                                         *)
(* The service runs on a single-threaded event loop.  One action of the    *)
(* model is one uninterrupted run of scheduler code: a public method up to *)
(* the point where it returns or awaits, or the resumption of an await.    *)
(* A task function is called synchronously from inside such a run          *)
(* (enqueue -> processQueue -> executeTask -> executeWithRetry -> task()), *)
(* so code of the task function that runs before its first await runs      *)
(* inside the action and may itself call enqueue or shutdown; the field    *)
(* sync of a task says which.  Promise reactions (.finally, the            *)
(* resumption after a promise that is already rejected) are microtasks and *)
(* run in FIFO order before any timer fires.                               *)
(***************************************************************************)
EXTENDS Integers, Sequences, FiniteSets, TLC

\* ---------------------------------------------------------------- bounds
\* The distinct keys, and the enqueue and shutdown calls made in a run; under
\* LiveSpec, the enqueue calls made from outside.
NumKeys == 2
MaxCalls == 2
MaxShutdowns == 2
MaxLiveCalls == 1

Keys == 1..NumKeys

\* The tasks of the sequential-queue test.
FifoTasks == 3

\* The snapshots of the statistics-copy test.
MaxSnapshots == 2

\* The concurrency limits the service is built with (the unit tests' 1 and 2)
\* and the maxRetries values callers pass.
Limits == {1, 2}
RetryArgs == {0, 1}

\* ------------------------------------------------------- optional values
\* A JavaScript value that may be undefined: <<>> is undefined, <<n>> is n.
Undefined == <<>>
Some(n) == <<n>>
\* NaN, the result of arithmetic on undefined.
NaN == <<>>

\* ------------------------------------------------------------- constants
\* Numbers that need not be whole are held in fixed point: a delay given by
\* a caller (baseDelay) in ticks of 1/TicksPerMs ms, jitter and the value of
\* Math.random() in hundredths.  2000 ticks are the source's 1000 ms and 20
\* its 0.2.
TicksPerMs == 2
Hundred == 100

defaultTaskConfig ==
  [maxRetries |-> Some(3), baseDelay |-> Some(1000 * TicksPerMs),
   jitter |-> Some(20)]

\* The configs a caller passes: none at all (NoConfig), maxRetries alone, or
\* the HTTP adapter's object whose maxRetries and baseDelay are present but
\* undefined.  Configs are the ones the scheduler's actions draw from.
NoConfig == [f \in {} |-> Undefined]
HttpConfig == [maxRetries |-> Undefined, baseDelay |-> Undefined]
NestedConfig == [maxRetries |-> Some(0)]
Configs ==
  {HttpConfig} \cup {[maxRetries |-> Some(n)] : n \in RetryArgs}

\* What a task function does before its first await, on every call of it.
SyncNone == [op |-> "none", key |-> 0]
SyncShutdown == [op |-> "shutdown", key |-> 0]
SyncEnqueue(k) == [op |-> "enqueue", key |-> k]
Syncs == {SyncNone, SyncShutdown} \cup {SyncEnqueue(k) : k \in Keys}

NoTask == 0

\* References to objects: this.stats itself, or the n-th object getStats has
\* created.
StatsObject == 0
NoObjects == [objects |-> <<>>, returned |-> <<>>]

NoBackoff == [config |-> NoConfig, attempt |-> 0, delays |-> <<>>, st |-> "none"]

VARIABLES
  concurrencyLimit,   \* config.concurrencyLimit
  runningTasksCount,  \* runningTasksCount
  pendingQueue,       \* pendingQueue: the queued tasks, oldest first
  runningTasks,       \* runningTasks: key -> promise (the id of its task)
  isShuttingDown,     \* isShuttingDown
  stats,              \* stats
  tasks,              \* every QueuedTask ever built, with its promise
  calls,              \* every enqueue call made, with what it returned
  shutdowns,          \* every shutdown call made: whether it found tasks
                      \* running (waited) and whether it has resolved (done)
  microtasks,         \* promise reactions waiting to run, oldest first
  backoff,            \* one run of executeWithRetry with its delays written
                      \* down: config, attempt, the delays slept, and where
                      \* the run stands (NoBackoff when none is followed)
  heap,               \* the objects getStats has created (objects) and the
                      \* reference each getStats call returned (returned)
  responses,          \* the TaskResponseDto of every POST /scheduler/tasks
                      \* request served, with the enqueue call it made
  failures            \* the failed attempts whose thrown value is followed:
                      \* the value, lastError made of it, and what reject()
                      \* was given if the attempt was the last

vars ==
  <<concurrencyLimit, runningTasksCount, pendingQueue, runningTasks,
    isShuttingDown, stats, tasks, calls, shutdowns, microtasks, backoff,
    heap, responses, failures>>

\* The mutable state as one record, so that the methods are functions on it.
State ==
  [runningTasksCount |-> runningTasksCount, pendingQueue |-> pendingQueue,
   runningTasks |-> runningTasks, isShuttingDown |-> isShuttingDown,
   stats |-> stats, tasks |-> tasks, calls |-> calls,
   shutdowns |-> shutdowns, microtasks |-> microtasks, heap |-> heap,
   responses |-> responses, failures |-> failures]

Update(s) ==
  /\ runningTasksCount' = s.runningTasksCount
  /\ pendingQueue' = s.pendingQueue
  /\ runningTasks' = s.runningTasks
  /\ isShuttingDown' = s.isShuttingDown
  /\ stats' = s.stats
  /\ tasks' = s.tasks
  /\ calls' = s.calls
  /\ shutdowns' = s.shutdowns
  /\ microtasks' = s.microtasks
  /\ heap' = s.heap
  /\ responses' = s.responses
  /\ failures' = s.failures
  /\ UNCHANGED <<concurrencyLimit, backoff>>

initialStats ==
  [enqueued |-> 0, running |-> 0, completed |-> 0, deduplicated |-> 0,
   retried |-> 0, failed |-> 0, cancelled |-> 0, pending |-> 0]

Init ==
  /\ concurrencyLimit \in Limits
  /\ runningTasksCount = 0
  /\ pendingQueue = <<>>
  /\ runningTasks = [k \in Keys |-> NoTask]
  /\ isShuttingDown = FALSE
  /\ stats = initialStats
  /\ tasks = <<>>
  /\ calls = <<>>
  /\ shutdowns = <<>>
  /\ microtasks = <<>>
  /\ backoff = NoBackoff
  /\ heap = NoObjects
  /\ responses = <<>>
  /\ failures = <<>>

\* ---------------------------------------------------------------- promises
Pending == [kind |-> "pending", task |-> 0, attempt |-> 0]
Value(t, n) == [kind |-> "value", task |-> t, attempt |-> n]
TaskError(t, n) == [kind |-> "TaskError", task |-> t, attempt |-> n]
UnknownError == [kind |-> "UnknownError", task |-> 0, attempt |-> 0]
TaskCancelled == [kind |-> "TaskCancelled", task |-> 0, attempt |-> 0]
SchedulerShuttingDown == [kind |-> "SchedulerShuttingDown", task |-> 0, attempt |-> 0]

\* { ...defaultTaskConfig, ...config }: every own property of config, an
\* undefined one included, replaces the default.
MergeConfig(defaults, config) ==
  [f \in (DOMAIN defaults) \cup (DOMAIN config) |->
     IF f \in DOMAIN config THEN config[f] ELSE defaults[f]]

\* config.maxRetries + 1
maxAttempts(config) ==
  IF config.maxRetries = Undefined THEN NaN ELSE Some(config.maxRetries[1] + 1)

\* attempt <= maxAttempts
LoopCond(attempt, max) == max # NaN /\ attempt <= max[1]

\* attempt === maxAttempts
IsLastAttempt(attempt, max) == max # NaN /\ attempt = max[1]

RECURSIVE Pow2(_)
\* Math.pow(2, n)
Pow2(n) == IF n = 0 THEN 1 ELSE 2 * Pow2(n - 1)

\* Math.max(a, b)
Max(a, b) == IF a >= b THEN a ELSE b

\* Math.round(x) of x = num / den, den > 0: the integer floor(x + 0.5).
Round(num, den) == (2 * num + den) \div (2 * den)

\* calculateRetryDelay with a linear backoff: baseDelay * (attempt + 1).
calculateRetryDelayLinear(attempt, config, random) ==
  IF config.baseDelay = Undefined \/ config.jitter = Undefined
  THEN NaN
  ELSE LET exponentialDelay == config.baseDelay[1] * (attempt + 1)
           jitterAmount == exponentialDelay * config.jitter[1]
           randomJitter == (random * 2 - Hundred) * jitterAmount
           finalDelay ==
             Max(0, exponentialDelay * Hundred * Hundred + randomJitter)
       IN  Some(Round(finalDelay, TicksPerMs * Hundred * Hundred))

\* calculateRetryDelay without Math.max(0, ...).
calculateRetryDelayNoFloor(attempt, config, random) ==
  IF config.baseDelay = Undefined \/ config.jitter = Undefined
  THEN NaN
  ELSE LET exponentialDelay == config.baseDelay[1] * Pow2(attempt)
           jitterAmount == exponentialDelay * config.jitter[1]
           randomJitter == (random * 2 - Hundred) * jitterAmount
           finalDelay == exponentialDelay * Hundred * Hundred + randomJitter
       IN  Some(Round(finalDelay, TicksPerMs * Hundred * Hundred))

\* calculateRetryDelay(attempt, config), with random the value Math.random()
\* returns, in hundredths.  The result is a whole number of ms, or NaN when
\* baseDelay or jitter is undefined.
calculateRetryDelay(attempt, config, random) ==
  IF config.baseDelay = Undefined \/ config.jitter = Undefined
  THEN NaN
  ELSE LET baseDelay == config.baseDelay[1]
           jitter == config.jitter[1]
           \* in ticks
           exponentialDelay == baseDelay * Pow2(attempt)
           \* in ticks / Hundred
           jitterAmount == exponentialDelay * jitter
           \* in ticks / (Hundred * Hundred)
           randomJitter == (random * 2 - Hundred) * jitterAmount
           finalDelay ==
             Max(0, exponentialDelay * Hundred * Hundred + randomJitter)
       IN  Some(Round(finalDelay, TicksPerMs * Hundred * Hundred))

\* resolve(result) or reject(error) of a task's promise; the .finally reaction
\* that enqueue attached is queued as a microtask.
Settle(s, t, result) ==
  [s EXCEPT !.tasks[t].result = result,
            !.microtasks = Append(@, [kind |-> "finally", key |-> s.tasks[t].key, task |-> t])]

RECURSIVE enqueue(_, _, _, _)
RECURSIVE processQueue(_)
RECURSIVE executeTask(_, _)
RECURSIVE executeWithRetry(_, _)
RECURSIVE shutdown(_)

\* One call of the task function: what it does before its first await.
Invoke(s, t) ==
  LET sync == s.tasks[t].sync
      s1 == [s EXCEPT !.tasks[t].invoked = @ + 1,
                      !.tasks[t].st = "awaiting",
                      !.tasks[t].lateStart =
                         IF s.tasks[t].invoked = 0 THEN s.shutdowns # <<>> ELSE @]
  IN  CASE sync.op = "enqueue" /\ Len(s1.calls) < MaxCalls ->
             enqueue(s1, sync.key, NestedConfig, SyncNone)
        [] sync.op = "shutdown" /\ Len(s1.shutdowns) < MaxShutdowns ->
             shutdown(s1)
        [] OTHER -> s1

\* The loop of executeWithRetry from its condition, with tasks[t].attempt the
\* loop variable: the next call of the task function, or the throw after the
\* loop, which executeTask catches one microtask later.
executeWithRetry(s, t) ==
  LET task == s.tasks[t]
  IN  IF LoopCond(task.attempt, maxAttempts(task.config))
      THEN Invoke(s, t)
      ELSE [s EXCEPT !.tasks[t].st = "thrown",
                     !.microtasks = Append(@, [kind |-> "catch", key |-> task.key, task |-> t])]

\* The finally block without the decrement of runningTasksCount.
ReleaseSlotNoDecrement(s) == processQueue(s)

\* The finally block without the call of processQueue.
ReleaseSlotNoDispatch(s) ==
  [s EXCEPT !.runningTasksCount = @ - 1,
            !.stats.running = s.runningTasksCount - 1]

\* The finally block of executeTask.
ReleaseSlot(s) ==
  processQueue([s EXCEPT !.runningTasksCount = @ - 1,
                         !.stats.running = s.runningTasksCount - 1])

\* The tasks that executeTask has started, in s.
Started(s) == {u \in DOMAIN s.tasks : s.tasks[u].started > 0}

\* executeTask up to its await; started is the task's place in the order of
\* the "Task started" events.
executeTask(s, t) ==
  IF s.isShuttingDown
  THEN Settle([s EXCEPT !.stats.cancelled = @ + 1, !.tasks[t].st = "done"],
              t, TaskCancelled)
  ELSE executeWithRetry(
         [s EXCEPT !.runningTasksCount = @ + 1,
                   !.stats.running = s.runningTasksCount + 1,
                   !.tasks[t].attempt = 1,
                   !.tasks[t].started = 1 + Cardinality(Started(s))], t)

\* processQueue that takes the newest queued task (pop for shift).
processQueueLifo(s) ==
  IF s.runningTasksCount < concurrencyLimit /\ Len(s.pendingQueue) > 0
  THEN LET t == s.pendingQueue[Len(s.pendingQueue)]
           s1 == [s EXCEPT !.pendingQueue = SubSeq(@, 1, Len(@) - 1),
                           !.stats.pending = Len(s.pendingQueue) - 1]
       IN  processQueue(executeTask(s1, t))
  ELSE s

\* processQueue that keeps one slot free.
processQueueLeavesOneFree(s) ==
  IF s.runningTasksCount + 1 < concurrencyLimit /\ Len(s.pendingQueue) > 0
  THEN LET t == Head(s.pendingQueue)
           s1 == [s EXCEPT !.pendingQueue = Tail(@),
                           !.stats.pending = Len(Tail(s.pendingQueue))]
       IN  processQueue(executeTask(s1, t))
  ELSE s

\* processQueue with the gate off by one (<= for <).
processQueueOffByOne(s) ==
  IF s.runningTasksCount <= concurrencyLimit /\ Len(s.pendingQueue) > 0
  THEN LET t == Head(s.pendingQueue)
           s1 == [s EXCEPT !.pendingQueue = Tail(@),
                           !.stats.pending = Len(Tail(s.pendingQueue))]
       IN  processQueue(executeTask(s1, t))
  ELSE s

processQueue(s) ==
  IF s.runningTasksCount < concurrencyLimit /\ Len(s.pendingQueue) > 0
  THEN LET t == Head(s.pendingQueue)
           s1 == [s EXCEPT !.pendingQueue = Tail(@),
                           !.stats.pending = Len(Tail(s.pendingQueue))]
       IN  processQueue(executeTask(s1, t))
  ELSE s

\* The task with key k whose promise is unsettled and that is queued or
\* executing, oldest first; NoTask when there is none.
Outstanding(s, k) ==
  LET live == {t \in 1..Len(s.tasks) :
                 /\ s.tasks[t].key = k
                 /\ s.tasks[t].result = Pending
                 /\ s.tasks[t].st # "dropped"}
  IN  IF live = {} THEN NoTask ELSE CHOOSE t \in live : \A u \in live : t <= u

\* enqueueAccepted that counts a deduplicated call under enqueued as well.
enqueueAcceptedCountsTwice(s, key, config, sync) ==
  IF s.runningTasks[key] # NoTask
  THEN [s EXCEPT !.stats.deduplicated = @ + 1,
                 !.stats.enqueued = @ + 1,
                 !.calls = Append(@, [key |-> key, kind |-> "deduplicated",
                                      task |-> s.runningTasks[key],
                                      seen |-> Outstanding(s, key),
                                      late |-> s.shutdowns # <<>>])]
  ELSE LET t == Len(s.tasks) + 1
           queuedTask ==
             [key |-> key, given |-> config,
              config |-> MergeConfig(defaultTaskConfig, config),
              sync |-> sync, st |-> "queued", attempt |-> 0, invoked |-> 0,
              lastError |-> 0, lateStart |-> FALSE, result |-> Pending,
              started |-> 0]
           s1 == [s EXCEPT !.stats.enqueued = @ + 1,
                           !.tasks = Append(@, queuedTask),
                           !.calls = Append(@, [key |-> key, kind |-> "admitted",
                                                task |-> t,
                                                seen |-> Outstanding(s, key),
                                                late |-> s.shutdowns # <<>>]),
                           !.pendingQueue = Append(@, t),
                           !.stats.pending = Len(s.pendingQueue) + 1]
           s2 == processQueue(s1)
       IN  [s2 EXCEPT !.runningTasks[key] = t]

\* enqueue after its shutdown check: deduplication or a new admission.
enqueueAccepted(s, key, config, sync) ==
  LET seen == Outstanding(s, key)
      late == s.shutdowns # <<>>
  IN  IF s.runningTasks[key] # NoTask
      THEN [s EXCEPT !.stats.deduplicated = @ + 1,
                     !.calls = Append(@, [key |-> key, kind |-> "deduplicated",
                                          task |-> s.runningTasks[key],
                                          seen |-> seen, late |-> late])]
      ELSE LET t == Len(s.tasks) + 1
               queuedTask ==
                 [key |-> key, given |-> config,
                  config |-> MergeConfig(defaultTaskConfig, config),
                  sync |-> sync, st |-> "queued", attempt |-> 0, invoked |-> 0,
                  lastError |-> 0, lateStart |-> FALSE, result |-> Pending,
                  started |-> 0]
               s1 == [s EXCEPT !.stats.enqueued = @ + 1,
                               !.tasks = Append(@, queuedTask),
                               !.calls = Append(@, [key |-> key, kind |-> "admitted",
                                                    task |-> t, seen |-> seen,
                                                    late |-> late]),
                               !.pendingQueue = Append(@, t),
                               !.stats.pending = Len(s.pendingQueue) + 1]
               s2 == processQueue(s1)
           IN  [s2 EXCEPT !.runningTasks[key] = t]

\* enqueue that turns callers away while a task sleeps between attempts.
enqueueBlockedByBackoff(s, key, config, sync) ==
  IF s.isShuttingDown \/ \E t \in DOMAIN s.tasks : s.tasks[t].st = "sleeping"
  THEN [s EXCEPT !.stats.cancelled = @ + 1,
                 !.calls = Append(@, [key |-> key, kind |-> "rejected",
                                      task |-> NoTask, seen |-> Outstanding(s, key),
                                      late |-> s.shutdowns # <<>>])]
  ELSE enqueueAccepted(s, key, config, sync)

\* enqueue that looks for the key before it looks at isShuttingDown.
enqueueDedupBeforeGate(s, key, config, sync) ==
  IF s.isShuttingDown /\ s.runningTasks[key] = NoTask
  THEN [s EXCEPT !.stats.cancelled = @ + 1,
                 !.calls = Append(@, [key |-> key, kind |-> "rejected",
                                      task |-> NoTask, seen |-> Outstanding(s, key),
                                      late |-> s.shutdowns # <<>>])]
  ELSE enqueueAccepted(s, key, config, sync)

\* enqueue without its shutdown check.
enqueueNoGate(s, key, config, sync) == enqueueAccepted(s, key, config, sync)

enqueue(s, key, config, sync) ==
  IF s.isShuttingDown
  THEN [s EXCEPT !.stats.cancelled = @ + 1,
                 !.calls = Append(@, [key |-> key, kind |-> "rejected",
                                      task |-> NoTask, seen |-> Outstanding(s, key),
                                      late |-> s.shutdowns # <<>>])]
  ELSE enqueueAccepted(s, key, config, sync)

\* DrainQueue that leaves stats.pending as it was.
DrainQueueKeepsPending(s) ==
  LET pendingCount == Len(s.pendingQueue)
      dropped == {s.pendingQueue[i] : i \in 1..pendingCount}
  IN  [s EXCEPT !.pendingQueue = <<>>,
                !.tasks = [t \in DOMAIN s.tasks |->
                             IF t \in dropped
                             THEN [s.tasks[t] EXCEPT !.st = "dropped"]
                             ELSE s.tasks[t]],
                !.stats.cancelled = @ + pendingCount]

\* DrainQueue that takes the drained tasks out of enqueued again.
DrainQueueUncountsEnqueued(s) ==
  LET pendingCount == Len(s.pendingQueue)
      dropped == {s.pendingQueue[i] : i \in 1..pendingCount}
  IN  [s EXCEPT !.pendingQueue = <<>>,
                !.tasks = [t \in DOMAIN s.tasks |->
                             IF t \in dropped
                             THEN [s.tasks[t] EXCEPT !.st = "dropped"]
                             ELSE s.tasks[t]],
                !.stats.enqueued = @ - pendingCount,
                !.stats.cancelled = @ + pendingCount,
                !.stats.pending = 0]

\* shutdown's drain of the pending queue.
DrainQueue(s) ==
  LET pendingCount == Len(s.pendingQueue)
      dropped == {s.pendingQueue[i] : i \in 1..pendingCount}
  IN  [s EXCEPT !.pendingQueue = <<>>,
                !.tasks = [t \in DOMAIN s.tasks |->
                             IF t \in dropped
                             THEN [s.tasks[t] EXCEPT !.st = "dropped"]
                             ELSE s.tasks[t]],
                !.stats.cancelled = @ + pendingCount,
                !.stats.pending = 0]

\* The completion of a shutdown call: it waits while tasks are running.
AwaitRunning(s) ==
  [s EXCEPT !.shutdowns =
     Append(@, [waited |-> s.runningTasksCount > 0,
                done |-> ~(s.runningTasksCount > 0)])]

\* shutdown that counts every drained task twice.
shutdownCountsTwice(s) ==
  LET s1 == DrainQueue([s EXCEPT !.isShuttingDown = TRUE])
  IN  AwaitRunning([s1 EXCEPT !.stats.cancelled = @ + Len(s.pendingQueue)])

\* shutdown that does not wait for the running tasks.
shutdownNoWait(s) ==
  LET s1 == DrainQueue([s EXCEPT !.isShuttingDown = TRUE])
  IN  [s1 EXCEPT !.shutdowns =
         Append(@, [waited |-> s1.runningTasksCount > 0, done |-> TRUE])]

\* shutdown that does not set isShuttingDown.
shutdownNoFlag(s) == AwaitRunning(DrainQueue(s))

\* shutdown whose repeated call resolves at once.
shutdownRepeatResolvesAtOnce(s) ==
  IF s.isShuttingDown
  THEN [s EXCEPT !.shutdowns = Append(@, [waited |-> FALSE, done |-> TRUE])]
  ELSE AwaitRunning(DrainQueue([s EXCEPT !.isShuttingDown = TRUE]))

shutdown(s) == AwaitRunning(DrainQueue([s EXCEPT !.isShuttingDown = TRUE]))

\* isShutdown that reports the end of shutdown instead of its start.
isShutdownWhenComplete(s) ==
  \E i \in DOMAIN s.shutdowns : s.shutdowns[i].done

isShutdown(s) == s.isShuttingDown

\* getStats that hands out this.stats itself.
getStatsReturnsInternal(s) ==
  [s EXCEPT !.heap.returned = Append(@, StatsObject)]

\* getStats: { ...this.stats } is a new object with the counters copied.
getStats(s) ==
  [s EXCEPT !.heap.objects = Append(@, s.stats),
            !.heap.returned = Append(@, Len(s.heap.objects) + 1)]

\* ----------------------------------------------------------------- actions
\* Keys are only compared for equality, so the callers use them in order; at
\* most one of the task functions calls back into the scheduler.
Enqueue(key, config, sync) ==
  /\ Len(calls) < MaxCalls
  /\ \A k \in Keys : k < key => \E c \in DOMAIN calls : calls[c].key = k
  /\ sync # SyncNone => \A t \in DOMAIN tasks : tasks[t].sync = SyncNone
  /\ Update(enqueue(State, key, config, sync))

\* TaskResolves that counts the successful attempt as a retry.
TaskResolvesCountsRetry(t) ==
  /\ t \in DOMAIN tasks
  /\ tasks[t].st = "awaiting"
  /\ LET s1 == [State EXCEPT !.stats.completed = @ + 1,
                             !.stats.retried = @ + 1,
                             !.tasks[t].st = "done"]
     IN  Update(ReleaseSlot(Settle(s1, t, Value(t, tasks[t].attempt))))

\* TaskResolves without the finally block of executeTask.
TaskResolvesKeepsSlot(t) ==
  /\ t \in DOMAIN tasks
  /\ tasks[t].st = "awaiting"
  /\ LET s1 == [State EXCEPT !.stats.completed = @ + 1, !.tasks[t].st = "done"]
     IN  Update(Settle(s1, t, Value(t, tasks[t].attempt)))

\* The promise task() returned is fulfilled: executeWithRetry returns the
\* value and executeTask resumes after its await.
TaskResolves(t) ==
  /\ t \in DOMAIN tasks
  /\ tasks[t].st = "awaiting"
  /\ LET s1 == [State EXCEPT !.stats.completed = @ + 1, !.tasks[t].st = "done"]
     IN  Update(ReleaseSlot(Settle(s1, t, Value(t, tasks[t].attempt))))

\* executeTask's catch block without the finally block after it.
FailTaskKeepsSlot(s, t, error) ==
  Settle([s EXCEPT !.stats.failed = @ + 1, !.tasks[t].st = "done"], t, error)

\* executeTask's catch block.
FailTask(s, t, error) ==
  ReleaseSlot(Settle([s EXCEPT !.stats.failed = @ + 1, !.tasks[t].st = "done"],
                     t, error))

\* TaskRejects that counts every failed attempt under failed.
TaskRejectsCountsEveryFailure(t) ==
  /\ t \in DOMAIN tasks
  /\ tasks[t].st = "awaiting"
  /\ LET n == tasks[t].attempt
         s1 == [State EXCEPT !.tasks[t].lastError = n]
     IN  IF IsLastAttempt(n, maxAttempts(tasks[t].config))
         THEN Update(FailTask(s1, t, TaskError(t, n)))
         ELSE Update([s1 EXCEPT !.stats.retried = @ + 1,
                                !.stats.failed = @ + 1,
                                !.tasks[t].st = "sleeping"])

\* The promise task() returned is rejected: the catch block of
\* executeWithRetry.
TaskRejects(t) ==
  /\ t \in DOMAIN tasks
  /\ tasks[t].st = "awaiting"
  /\ LET n == tasks[t].attempt
         s1 == [State EXCEPT !.tasks[t].lastError = n]
     IN  IF IsLastAttempt(n, maxAttempts(tasks[t].config))
         THEN Update(FailTask(s1, t, TaskError(t, n)))
         ELSE Update([s1 EXCEPT !.stats.retried = @ + 1, !.tasks[t].st = "sleeping"])

\* RetryWake that gives up a retry once shutdown has begun.
RetryWakeStopsOnShutdown(t) ==
  /\ t \in DOMAIN tasks
  /\ microtasks = <<>>
  /\ tasks[t].st = "sleeping"
  /\ IF isShuttingDown
     THEN Update(ReleaseSlot(Settle([State EXCEPT !.stats.cancelled = @ + 1,
                                                   !.tasks[t].st = "done"],
                                    t, TaskCancelled)))
     ELSE Update(executeWithRetry([State EXCEPT !.tasks[t].attempt = @ + 1], t))

\* The timer of sleep(delay) fires: attempt++ and the loop goes round.
RetryWake(t) ==
  /\ t \in DOMAIN tasks
  /\ microtasks = <<>>
  /\ tasks[t].st = "sleeping"
  /\ Update(executeWithRetry([State EXCEPT !.tasks[t].attempt = @ + 1], t))

\* The oldest promise reaction runs.
RunMicrotask ==
  /\ microtasks # <<>>
  /\ LET m == Head(microtasks)
         s1 == [State EXCEPT !.microtasks = Tail(@)]
     IN  IF m.kind = "finally"
         THEN Update([s1 EXCEPT !.runningTasks[m.key] = NoTask])
         ELSE Update(FailTask(s1, m.task,
                       IF tasks[m.task].lastError = 0 THEN UnknownError
                       ELSE TaskError(m.task, tasks[m.task].lastError)))

Shutdown ==
  /\ Len(shutdowns) < MaxShutdowns
  /\ Update(shutdown(State))

\* The timer of sleep(100) in shutdown's loop fires.
ShutdownPoll(i) ==
  /\ i \in DOMAIN shutdowns
  /\ microtasks = <<>>
  /\ ~shutdowns[i].done
  /\ ~(runningTasksCount > 0)
  /\ Update([State EXCEPT !.shutdowns[i].done = TRUE])

Next ==
  \/ \E key \in Keys, config \in Configs, sync \in Syncs : Enqueue(key, config, sync)
  \/ \E t \in DOMAIN tasks : TaskResolves(t)
  \/ \E t \in DOMAIN tasks : TaskRejects(t)
  \/ \E t \in DOMAIN tasks : RetryWake(t)
  \/ RunMicrotask
  \/ Shutdown
  \/ \E i \in DOMAIN shutdowns : ShutdownPoll(i)

Spec == Init /\ [][Next]_vars

\* A step the event loop takes by itself: a promise reaction, a timer, or the
\* settling of a promise that a task function returned.
Progress ==
  \/ RunMicrotask
  \/ \E t \in DOMAIN tasks : TaskResolves(t) \/ TaskRejects(t) \/ RetryWake(t)
  \/ \E i \in DOMAIN shutdowns : ShutdownPoll(i)

\* The event loop does not stop while such a step is possible: every promise
\* of a task function settles and every timer fires.
Fairness == WF_vars(Progress)

\* The same scheduler with fewer calls from outside, for the properties that
\* need the fairness of the event loop.
LiveNext ==
  \/ \E key \in Keys, config \in Configs, sync \in Syncs :
       Len(calls) < MaxLiveCalls /\ Enqueue(key, config, sync)
  \/ \E t \in DOMAIN tasks : TaskResolves(t)
  \/ \E t \in DOMAIN tasks : TaskRejects(t)
  \/ \E t \in DOMAIN tasks : RetryWake(t)
  \/ RunMicrotask
  \/ Shutdown
  \/ \E i \in DOMAIN shutdowns : ShutdownPoll(i)

LiveSpec == Init /\ [][LiveNext]_vars /\ Fairness

\* The scheduler of the sequential-queue test: FifoTasks enqueue calls with
\* task functions that do not call back, and at most one shutdown.
FifoKeys == 1..FifoTasks

FifoInit ==
  /\ concurrencyLimit \in Limits
  /\ runningTasksCount = 0
  /\ pendingQueue = <<>>
  /\ runningTasks = [k \in FifoKeys |-> NoTask]
  /\ isShuttingDown = FALSE
  /\ stats = initialStats
  /\ tasks = <<>>
  /\ calls = <<>>
  /\ shutdowns = <<>>
  /\ microtasks = <<>>
  /\ backoff = NoBackoff
  /\ heap = NoObjects
  /\ responses = <<>>
  /\ failures = <<>>

FifoEnqueue(key, config) ==
  /\ Len(calls) < FifoTasks
  /\ \A k \in FifoKeys : k < key => \E c \in DOMAIN calls : calls[c].key = k
  /\ Update(enqueue(State, key, config, SyncNone))

FifoNext ==
  \/ \E key \in FifoKeys, config \in Configs : FifoEnqueue(key, config)
  \/ \E t \in DOMAIN tasks : TaskResolves(t)
  \/ \E t \in DOMAIN tasks : TaskRejects(t)
  \/ \E t \in DOMAIN tasks : RetryWake(t)
  \/ RunMicrotask
  \/ shutdowns = <<>> /\ Shutdown
  \/ \E i \in DOMAIN shutdowns : ShutdownPoll(i)

FifoSpec == FifoInit /\ [][FifoNext]_vars

\* One run of executeWithRetry followed with its delays: the configs callers
\* pass (baseDelay 0, 0.5, 1.5 and 1000 ms, jitter 0, 0.2, 1, 1.5 and -1.5, or
\* no config at all) and the values Math.random() returns (0, 0.5 and 0.99).
DelayConfigs ==
  {NoConfig} \cup
  [maxRetries : {Some(0), Some(3)},
   baseDelay : {Some(0), Some(1), Some(3), Some(1000 * TicksPerMs)},
   jitter : {Some(0), Some(20), Some(Hundred), Some(150), Some(-150)}]

Randoms == {0, 50, 99}

DelayInit ==
  /\ concurrencyLimit \in Limits
  /\ runningTasksCount = 0
  /\ pendingQueue = <<>>
  /\ runningTasks = [k \in Keys |-> NoTask]
  /\ isShuttingDown = FALSE
  /\ stats = initialStats
  /\ tasks = <<>>
  /\ calls = <<>>
  /\ shutdowns = <<>>
  /\ microtasks = <<>>
  /\ heap = NoObjects
  /\ responses = <<>>
  /\ failures = <<>>
  /\ \E config \in DelayConfigs :
       backoff = [config |-> MergeConfig(defaultTaskConfig, config),
                  attempt |-> 1, delays |-> <<>>, st |-> "awaiting"]

\* executeWithRetry writes no field of the service but stats.retried.
UnchangedScheduler ==
  UNCHANGED <<concurrencyLimit, runningTasksCount, pendingQueue, runningTasks,
              isShuttingDown, tasks, calls, shutdowns, microtasks, heap,
              responses, failures>>

\* await task() returns: executeWithRetry returns the result.
AttemptSucceeds ==
  /\ backoff.st = "awaiting"
  /\ backoff' = [backoff EXCEPT !.st = "returned"]
  /\ UNCHANGED stats
  /\ UnchangedScheduler

\* await task() throws: the catch block of executeWithRetry, then the sleep
\* and the next round of the loop.
AttemptFails(random) ==
  /\ backoff.st = "awaiting"
  /\ IF IsLastAttempt(backoff.attempt, maxAttempts(backoff.config))
     THEN /\ backoff' = [backoff EXCEPT !.st = "thrown"]
          /\ UNCHANGED stats
     ELSE LET delay == calculateRetryDelay(backoff.attempt - 1, backoff.config, random)
          IN  /\ stats' = [stats EXCEPT !.retried = @ + 1]
              /\ backoff' = [backoff EXCEPT !.delays = Append(@, delay),
                                            !.attempt = @ + 1]
  /\ UnchangedScheduler

DelayNext ==
  \/ AttemptSucceeds
  \/ \E random \in Randoms : AttemptFails(random)

DelaySpec == DelayInit /\ [][DelayNext]_vars

\* The scheduler with callers that take snapshots of the statistics and write
\* to the objects they were given: one enqueue call from outside, no shutdown.
GetStats ==
  /\ Len(heap.returned) < MaxSnapshots
  /\ Update(getStats(State))

\* The holder of the reference that the i-th getStats call returned writes -1
\* (a value no counter has) to field f of that object.
MutateSnapshot(i, f) ==
  /\ i \in DOMAIN heap.returned
  /\ LET ref == heap.returned[i]
     IN  IF ref = StatsObject
         THEN /\ stats[f] # -1
              /\ Update([State EXCEPT !.stats[f] = -1])
         ELSE /\ heap.objects[ref][f] # -1
              /\ Update([State EXCEPT !.heap.objects[ref][f] = -1])

StatsNext ==
  \/ \E key \in Keys, config \in Configs, sync \in Syncs :
       calls = <<>> /\ Enqueue(key, config, sync)
  \/ \E t \in DOMAIN tasks : TaskResolves(t)
  \/ \E t \in DOMAIN tasks : TaskRejects(t)
  \/ \E t \in DOMAIN tasks : RetryWake(t)
  \/ RunMicrotask
  \/ GetStats
  \/ \E i \in DOMAIN heap.returned, f \in {"enqueued", "running"} :
       MutateSnapshot(i, f)

StatsSpec == Init /\ [][StatsNext]_vars

\* The scheduler with callers that wait for a task to sleep between two
\* attempts before they make their next enqueue call.
BackoffNext ==
  \/ \E key \in Keys, config \in Configs, sync \in Syncs :
       /\ calls = <<>> \/ \E t \in DOMAIN tasks : tasks[t].st = "sleeping"
       /\ Enqueue(key, config, sync)
  \/ \E t \in DOMAIN tasks : TaskResolves(t)
  \/ \E t \in DOMAIN tasks : TaskRejects(t)
  \/ \E t \in DOMAIN tasks : RetryWake(t)
  \/ RunMicrotask
  \/ Shutdown
  \/ \E i \in DOMAIN shutdowns : ShutdownPoll(i)

BackoffSpec == Init /\ [][BackoffNext]_vars

\* ----------------------------------------------------------- HTTP adapter
\* The completion of a call: a value returned or an error thrown.
Returned(v) == [type |-> "return", value |-> v]
Thrown(e) == [type |-> "throw", value |-> e]

\* A promise, pending or rejected with an error.
PendingPromise == [promise |-> "pending", reason |-> Pending]
RejectedPromise(e) == [promise |-> "rejected", reason |-> e]

\* The completion of this.schedulerService.enqueue(...): enqueue is declared
\* async, so the call returns a promise whatever its body does, and a throw
\* in the body rejects that promise.
CallEnqueue(call) ==
  Returned(IF call.kind = "rejected" THEN RejectedPromise(SchedulerShuttingDown)
           ELSE PendingPromise)

\* What a POST /scheduler/tasks body carries: maxRetries (at least 1) or
\* nothing; enqueueTask passes both properties in either case.
DtoConfigs == {HttpConfig, [maxRetries |-> Some(1), baseDelay |-> Undefined]}

\* SchedulerController.enqueueTask: the call of enqueue inside try (not
\* awaited), the PENDING response after it, and the catch block that answers
\* CANCELLED for an error whose message has 'shutting down' in it and throws
\* any other error on.
enqueueTask(s, key, dto) ==
  LET s1 == enqueue(s, key, dto, SyncNone)
      completion == CallEnqueue(s1.calls[Len(s1.calls)])
      status ==
        IF completion.type = "throw"
        THEN IF completion.value = SchedulerShuttingDown
             THEN "CANCELLED" ELSE "rethrown"
        ELSE "PENDING"
  IN  [s1 EXCEPT !.responses =
         Append(@, [key |-> key, status |-> status, call |-> Len(s1.calls)])]

\* A POST /scheduler/tasks request is served.
EnqueueTask(key, dto) ==
  /\ Len(calls) < MaxCalls
  /\ \A k \in Keys : k < key => \E c \in DOMAIN calls : calls[c].key = k
  /\ Update(enqueueTask(State, key, dto))

\* The scheduler behind its controller: every task is the controller's
\* taskFunction, which waits 100 ms and returns; POST /scheduler/shutdown
\* calls shutdown() and does not wait for it.
HttpNext ==
  \/ \E key \in Keys, dto \in DtoConfigs : EnqueueTask(key, dto)
  \/ \E t \in DOMAIN tasks : TaskResolves(t)
  \/ RunMicrotask
  \/ Shutdown
  \/ \E i \in DOMAIN shutdowns : ShutdownPoll(i)

HttpSpec == Init /\ [][HttpNext]_vars

\* ------------------------------------------------------------ thrown values
\* A JavaScript value: its type, its text (an Error's message, a string's
\* characters), its number, and who created it.
ErrorObject(message, by) ==
  [type |-> "Error", text |-> message, num |-> 0, by |-> by]
StringValue(chars) == [type |-> "string", text |-> chars, num |-> 0, by |-> "task"]
NumberValue(n) == [type |-> "number", text |-> "", num |-> n, by |-> "task"]
UndefinedValue == [type |-> "undefined", text |-> "", num |-> 0, by |-> "task"]
NoValue == [type |-> "none", text |-> "", num |-> 0, by |-> "none"]

\* What the task functions throw: an Error, a string, a number, undefined.
Throwables ==
  {ErrorObject("boom", "task"), StringValue("boom"), NumberValue(42),
   UndefinedValue}

\* String(value)
String(v) ==
  CASE v.type = "string" -> v.text
    [] v.type = "number" -> ToString(v.num)
    [] v.type = "undefined" -> "undefined"
    [] v.type = "Error" -> "Error: " \o v.text

\* new Error(String(error)) whatever error is.
AlwaysNewError(error) == ErrorObject(String(error), "scheduler")

\* error instanceof Error ? error : new Error(String(error))
AsError(error) ==
  IF error.type = "Error" THEN error ELSE ErrorObject(String(error), "scheduler")

\* TaskRejects with the thrown value followed: the catch block of
\* executeWithRetry makes lastError of it, and on the last attempt throws
\* lastError to the catch block of executeTask, which gives reject() its own
\* conversion of it.
TaskThrows(t, value) ==
  /\ t \in DOMAIN tasks
  /\ tasks[t].st = "awaiting"
  /\ LET n == tasks[t].attempt
         lastError == AsError(value)
         last == IsLastAttempt(n, maxAttempts(tasks[t].config))
         s1 == [State EXCEPT
                  !.tasks[t].lastError = n,
                  !.failures =
                     Append(@, [task |-> t, attempt |-> n, value |-> value,
                                lastError |-> lastError,
                                rejected |-> IF last THEN AsError(lastError)
                                             ELSE NoValue])]
     IN  IF last
         THEN Update(FailTask(s1, t, TaskError(t, n)))
         ELSE Update([s1 EXCEPT !.stats.retried = @ + 1, !.tasks[t].st = "sleeping"])

\* The scheduler with one enqueue call from outside and task functions whose
\* thrown values are followed.
ErrorNext ==
  \/ \E key \in Keys, config \in Configs, sync \in Syncs :
       calls = <<>> /\ Enqueue(key, config, sync)
  \/ \E t \in DOMAIN tasks : TaskResolves(t)
  \/ \E t \in DOMAIN tasks, value \in Throwables : TaskThrows(t, value)
  \/ \E t \in DOMAIN tasks : RetryWake(t)
  \/ RunMicrotask
  \/ Shutdown
  \/ \E i \in DOMAIN shutdowns : ShutdownPoll(i)

ErrorSpec == Init /\ [][ErrorNext]_vars

\* ------------------------------------------------------------- properties
Last(q) == q[Len(q)]

\* The tasks that are mid-execution: dispatched and not yet finished.
Executing ==
  {t \in DOMAIN tasks : tasks[t].st \in {"awaiting", "sleeping", "thrown"}}

\* The tasks shutdown removed from the pending queue.
Dropped == {t \in DOMAIN tasks : tasks[t].st = "dropped"}

Settled(t) == tasks[t].result # Pending

\* C1: in every reachable state the number of tasks mid-execution, the
\* counter runningTasksCount and stats.running are at most concurrencyLimit.
C1_RunningWithinLimit ==
  /\ Cardinality(Executing) <= concurrencyLimit
  /\ runningTasksCount <= concurrencyLimit
  /\ stats.running <= concurrencyLimit

\* The gate is full and another task waits in the queue.
C1_Witness ==
  /\ Cardinality(Executing) = concurrencyLimit
  /\ Len(pendingQueue) > 0

\* C2: every accepted enqueue call made while a task with its key is
\* outstanding is deduplicated (its own function is never queued or called),
\* enqueued counts the admissions and deduplicated the other accepted calls.
C2_SameKeyRunsOnce ==
  /\ \A c \in DOMAIN calls :
       (calls[c].seen # NoTask /\ calls[c].kind # "rejected")
         => calls[c].kind = "deduplicated"
  /\ stats.enqueued = Cardinality({c \in DOMAIN calls : calls[c].kind = "admitted"})
  /\ stats.deduplicated =
       Cardinality({c \in DOMAIN calls : calls[c].kind = "deduplicated"})

\* C3: once the task that was outstanding when an accepted call was made has
\* settled, the promise the call returned has settled with the same value or
\* the same error.
C3_SameOutcomeForAllCallers ==
  \A c \in DOMAIN calls :
    (calls[c].seen # NoTask /\ calls[c].kind # "rejected" /\ Settled(calls[c].seen))
      => tasks[calls[c].task].result = tasks[calls[c].seen].result

\* C4: every task shutdown removed from the pending queue has its promise
\* rejected with TaskCancelled.
C4_DrainedAreRejected ==
  \A t \in Dropped : tasks[t].result = TaskCancelled

\* C5: a step that invokes shutdown adds to cancelled exactly the number of
\* tasks it drains (all that were queued, when shutdown is called from
\* outside), leaves no task queued and sets pending to 0; a drained task is
\* never invoked, before or after.
C5_DrainCountsOnceNeverRuns ==
  [][/\ Len(shutdowns') > Len(shutdowns) =>
          /\ stats'.cancelled =
               stats.cancelled
                 + Cardinality({t \in DOMAIN tasks' : tasks'[t].st = "dropped"} \ Dropped)
          /\ (\A t \in DOMAIN tasks : tasks'[t].invoked = tasks[t].invoked)
               => Cardinality({t \in DOMAIN tasks' : tasks'[t].st = "dropped"} \ Dropped)
                    = Len(pendingQueue)
          /\ \A t \in DOMAIN tasks' : tasks'[t].st # "queued"
          /\ pendingQueue' = <<>>
          /\ stats'.pending = 0
     /\ \A t \in Dropped : tasks[t].invoked = 0 /\ tasks'[t] = tasks[t]
    ]_vars

\* shutdown has drained a task, counted once, and all running work is over.
C5_Witness ==
  /\ Dropped # {}
  /\ stats.cancelled = Cardinality(Dropped)
  /\ stats.pending = 0
  /\ \E t \in DOMAIN tasks : tasks[t].st = "done" /\ tasks[t].invoked > 0
  /\ runningTasksCount = 0

\* C6: whenever no promise reaction is waiting to run, a key is in the
\* admission table iff a task with that key is queued or executing.
C6_TableIffQueuedOrExecuting ==
  microtasks = <<>> =>
    \A k \in Keys :
      (runningTasks[k] # NoTask)
        <=> (\E t \in DOMAIN tasks :
               tasks[t].key = k /\ (tasks[t].st = "queued" \/ t \in Executing))

\* C7: a shutdown call has resolved only if no task is running or executing
\* and the pending queue is empty.
C7_ShutdownResolvedOnlyWhenIdle ==
  \A i \in DOMAIN shutdowns :
    shutdowns[i].done =>
      /\ runningTasksCount = 0
      /\ Executing = {}
      /\ pendingQueue = <<>>

\* A shutdown that found a task running and a task queued has resolved.
C7_Witness ==
  \E i \in DOMAIN shutdowns :
    /\ shutdowns[i].waited
    /\ shutdowns[i].done
    /\ Dropped # {}
    /\ \E t \in DOMAIN tasks : tasks[t].st = "done" /\ tasks[t].invoked > 0

\* C8: when the event loop keeps running and every promise of a task function
\* settles, every shutdown call made eventually resolves (again and again, all
\* the calls made so far have resolved); a shutdown call that finds no task
\* running resolves in the same step.
C8_ShutdownEventuallyResolves ==
  /\ []<>(\A i \in DOMAIN shutdowns : shutdowns[i].done)
  /\ [][(Len(shutdowns') > Len(shutdowns) /\ runningTasksCount' = 0)
          => Last(shutdowns').done]_vars

\* A shutdown call has resolved after waiting for a task that was retried.
C8_Witness ==
  \E i \in DOMAIN shutdowns :
    /\ shutdowns[i].waited
    /\ shutdowns[i].done
    /\ \E t \in DOMAIN tasks : tasks[t].st = "done" /\ tasks[t].invoked > 1

\* C9: a step in which enqueue is called after shutdown has been invoked
\* rejects the call, adds exactly 1 to cancelled, and neither admits nor
\* queues a task (so the function supplied is never called).
C9_EnqueueAfterShutdownRejected ==
  [][(shutdowns # <<>> /\ Len(calls') > Len(calls)) =>
       /\ Len(calls') = Len(calls) + 1
       /\ Last(calls').kind = "rejected"
       /\ stats'.cancelled = stats.cancelled + 1
       /\ Len(tasks') = Len(tasks)
       /\ pendingQueue' = pendingQueue
    ]_vars

\* An enqueue was rejected while a task with its key was still executing.
C9_Witness ==
  \E c \in DOMAIN calls :
    /\ calls[c].kind = "rejected"
    /\ calls[c].seen # NoTask
    /\ stats.cancelled = 1

\* C10: no task function is called for the first time after shutdown has been
\* invoked, and a task that was cancelled (drained by shutdown or cancelled at
\* dispatch) was never called.
C10_NoFirstInvocationAfterShutdown ==
  \A t \in DOMAIN tasks :
    /\ tasks[t].invoked > 0 => ~tasks[t].lateStart
    /\ (t \in Dropped \/ tasks[t].result = TaskCancelled) => tasks[t].invoked = 0

\* After shutdown a task that had started is called again for a retry while
\* a drained task stays uncalled.
C10_Witness ==
  /\ isShuttingDown
  /\ Dropped # {}
  /\ \E t \in DOMAIN tasks : tasks[t].st = "awaiting" /\ tasks[t].invoked > 1

\* The calls enqueue rejected.
Rejected == {c \in DOMAIN calls : calls[c].kind = "rejected"}

\* The settled outcome of task t is the one its own attempts produced: the
\* value of its last call, or the error of call maxRetries + 1.
NaturalOutcome(t) ==
  LET max == maxAttempts(tasks[t].config)
  IN  \/ /\ tasks[t].result = Value(t, tasks[t].invoked)
         /\ LoopCond(tasks[t].invoked, max)
      \/ /\ tasks[t].result = TaskError(t, tasks[t].invoked)
         /\ IsLastAttempt(tasks[t].invoked, max)

C12_RepeatedShutdownIsNoOp ==
  /\ [][(isShuttingDown /\ Len(shutdowns') > Len(shutdowns)) =>
          /\ stats' = stats
          /\ pendingQueue = <<>> /\ pendingQueue' = <<>>
          /\ runningTasks' = runningTasks
          /\ runningTasksCount' = runningTasksCount
          /\ Len(tasks') = Len(tasks)
          /\ \A t \in DOMAIN tasks :
                /\ tasks'[t].result = tasks[t].result
                /\ (tasks'[t].st = "dropped") <=> (t \in Dropped)
          /\ Len(shutdowns') = Len(shutdowns) + 1
          /\ \A i \in DOMAIN shutdowns : shutdowns'[i] = shutdowns[i]
          /\ Last(shutdowns').done <=> (runningTasksCount = 0)
       ]_vars
  /\ [][\A i \in DOMAIN shutdowns :
          (~shutdowns[i].done /\ shutdowns'[i].done) => runningTasksCount = 0]_vars

\* Two shutdown calls were made while a task was running, the first drained
\* a queued task, cancelled counts it once, and both calls have resolved.
C12_Witness ==
  /\ Len(shutdowns) = 2
  /\ shutdowns[1].waited /\ shutdowns[1].done
  /\ shutdowns[2].waited /\ shutdowns[2].done
  /\ Cardinality(Dropped) = 1
  /\ stats.cancelled = 1

\* C13: isShutdown() is false exactly until the first shutdown call, is true
\* from the step of that call on (so already when a task has been drained,
\* and while the call is still waiting for running tasks), and once true
\* stays true.
C13_IsShutdownSetOnceAtCall ==
  /\ [](isShutdown(State) <=> shutdowns # <<>>)
  /\ [](Dropped # {} => isShutdown(State))
  /\ [][isShuttingDown => isShutdown(State)']_vars

\* isShutdown() is true while the first shutdown call, having drained a
\* task, still waits for a running one.
C13_Witness ==
  /\ isShutdown(State)
  /\ Dropped # {}
  /\ shutdowns[1].waited
  /\ ~shutdowns[1].done

\* C14: tasks start in the order of their admission: a task has started only
\* if every task admitted before it has started, and earlier.  With
\* concurrencyLimit 1 and three tasks with distinct keys admitted, once all
\* three are fulfilled they were started first, second and third, and
\* completed = 3, running = 0, pending = 0.
C14_StartOrderIsAdmissionOrder ==
  /\ \A a, b \in DOMAIN tasks :
       (a < b /\ tasks[b].started > 0)
         => (tasks[a].started > 0 /\ tasks[a].started < tasks[b].started)
  /\ ( /\ concurrencyLimit = 1
       /\ Len(tasks) = FifoTasks
       /\ \A t \in DOMAIN tasks : tasks[t].key = t /\ tasks[t].result.kind = "value" )
     => /\ \A t \in DOMAIN tasks : tasks[t].started = t
        /\ stats.completed = FifoTasks
        /\ stats.running = 0
        /\ stats.pending = 0

\* With concurrencyLimit 1, three tasks with distinct keys were admitted and
\* each was fulfilled at its first attempt.
C14_Witness ==
  /\ concurrencyLimit = 1
  /\ Len(tasks) = FifoTasks
  /\ \A t \in DOMAIN tasks :
       tasks[t].key = t /\ tasks[t].result = Value(t, 1) /\ tasks[t].started = t
  /\ stats.completed = FifoTasks
  /\ stats.enqueued = FifoTasks

\* The retries task t has been given so far: the failed attempts after which
\* executeWithRetry went to sleep.
RetriesOf(t) ==
  CASE tasks[t].st = "sleeping" -> tasks[t].invoked
    [] tasks[t].invoked > 0 -> tasks[t].invoked - 1
    [] OTHER -> 0

RECURSIVE TotalRetries(_)
TotalRetries(n) == IF n = 0 THEN 0 ELSE RetriesOf(n) + TotalRetries(n - 1)

\* The tasks whose promise was rejected after executeTask had started them.
Failed ==
  {t \in DOMAIN tasks : tasks[t].result.kind \in {"TaskError", "UnknownError"}}

\* C15: a task that has failed terminally was called exactly maxRetries + 1
\* times (maxRetries being the caller's value, or the default 3 when the
\* caller gave none), every call having failed, and was given exactly
\* maxRetries retries; retried is the sum of the retries given to all tasks
\* and failed the number of failed tasks.
C15_FailingTaskRunsMaxRetriesPlusOne ==
  /\ \A t \in Failed :
       LET R == IF tasks[t].config.maxRetries = Undefined
                THEN defaultTaskConfig.maxRetries[1]
                ELSE tasks[t].config.maxRetries[1]
       IN  /\ tasks[t].invoked = R + 1
           /\ RetriesOf(t) = R
  /\ stats.retried = TotalRetries(Len(tasks))
  /\ stats.failed = Cardinality(Failed)

\* The tasks whose promise was fulfilled.
Succeeded == {t \in DOMAIN tasks : tasks[t].result.kind = "value"}

\* C16: a task fulfilled by its attempt n (n <= maxRetries + 1) carries the
\* value of that attempt, was called exactly n times and is never called or
\* put to sleep again; the step that fulfils it adds 1 to completed and
\* nothing to retried or failed, so the task has added n - 1 to retried:
\* retried is the sum of the retries of all tasks, completed the number of
\* fulfilled tasks.
C16_SuccessAtAttemptN ==
  /\ [](\A t \in Succeeded :
          /\ tasks[t].result = Value(t, tasks[t].invoked)
          /\ tasks[t].attempt = tasks[t].invoked
          /\ LoopCond(tasks[t].invoked, maxAttempts(tasks[t].config))
          /\ tasks[t].st = "done"
          /\ RetriesOf(t) = tasks[t].invoked - 1)
  /\ [](/\ stats.retried = TotalRetries(Len(tasks))
        /\ stats.completed = Cardinality(Succeeded))
  /\ [][\A t \in DOMAIN tasks :
          /\ t \in Succeeded => tasks'[t] = tasks[t]
          /\ (tasks[t].result = Pending /\ tasks'[t].result.kind = "value") =>
               /\ tasks[t].st = "awaiting"
               /\ tasks'[t].invoked = tasks[t].invoked
               /\ stats'.completed = stats.completed + 1
               /\ stats'.retried = stats.retried
               /\ stats'.failed = stats.failed
       ]_vars

\* A task with maxRetries 1 failed its first attempt and was fulfilled by its
\* second: two calls, one retry, one completion, no failure.
C16_Witness ==
  \E t \in DOMAIN tasks :
    /\ tasks[t].config.maxRetries = Some(1)
    /\ tasks[t].result = Value(t, 2)
    /\ tasks[t].invoked = 2
    /\ stats.retried = 1
    /\ stats.completed = 1
    /\ stats.failed = 0

\* C17 as stated: with jitter 0 the delay slept after failed attempt n is
\* exactly baseDelay * 2^(n-1) ms.
C17_DelayIsExactlyExponential ==
  backoff.config.jitter = Some(0) =>
    \A n \in DOMAIN backoff.delays :
      /\ backoff.delays[n] # NaN
      /\ backoff.delays[n][1] * TicksPerMs
           = backoff.config.baseDelay[1] * Pow2(n - 1)

\* C17, amended: with jitter 0 the delay slept after failed attempt n is the
\* whole number of ms nearest to baseDelay * 2^(n-1), a half rounded up, and so
\* exactly baseDelay * 2^(n-1) when that is a whole number of ms; for
\* baseDelay 1000 the delays before attempts 2, 3 and 4 are 1000, 2000 and
\* 4000 ms.
C17_DelayIsRoundedExponential ==
  backoff.config.jitter = Some(0) =>
    /\ \A n \in DOMAIN backoff.delays :
         LET exact == backoff.config.baseDelay[1] * Pow2(n - 1)
             d == backoff.delays[n][1]
         IN  /\ backoff.delays[n] # NaN
             /\ -TicksPerMs < 2 * (d * TicksPerMs - exact)
             /\ 2 * (d * TicksPerMs - exact) <= TicksPerMs
             /\ exact % TicksPerMs = 0 => d * TicksPerMs = exact
    /\ backoff.config.baseDelay = Some(1000 * TicksPerMs) =>
         \A n \in DOMAIN backoff.delays :
           backoff.delays[n] = Some(<<1000, 2000, 4000>>[n])

\* With baseDelay 1000, jitter 0 and maxRetries 3 all four attempts have
\* failed and the delays slept were 1000, 2000 and 4000 ms.
C17_Witness ==
  /\ backoff.config =
       [maxRetries |-> Some(3), baseDelay |-> Some(1000 * TicksPerMs),
        jitter |-> Some(0)]
  /\ backoff.st = "thrown"
  /\ backoff.delays = <<Some(1000), Some(2000), Some(4000)>>

\* C18: the promise of a task that has failed terminally is rejected with the
\* error its attempt maxRetries + 1 raised (maxRetries being the caller's
\* value, or the default 3 when the caller gave none), that attempt being the
\* last call of its function; failed counts each such task once.
C18_RejectedWithLastAttemptError ==
  /\ \A t \in Failed :
       LET R == IF tasks[t].config.maxRetries = Undefined
                THEN defaultTaskConfig.maxRetries[1]
                ELSE tasks[t].config.maxRetries[1]
       IN  /\ tasks[t].result = TaskError(t, R + 1)
           /\ tasks[t].lastError = tasks[t].invoked
  /\ stats.failed = Cardinality(Failed)

\* C19: the config of every admitted task has, in each field, the value the
\* caller gave, or the default where the caller gave none (no such field in
\* the config passed, or the field passed as undefined).
C19_UnspecifiedFieldsTakeDefaults ==
  \A t \in DOMAIN tasks :
    \A f \in DOMAIN defaultTaskConfig :
      tasks[t].config[f] =
        IF f \in DOMAIN tasks[t].given /\ tasks[t].given[f] # Undefined
        THEN tasks[t].given[f]
        ELSE defaultTaskConfig[f]

\* C20: an accepted enqueue call made when no task with its key is unsettled
\* (none was admitted, or the last one has settled) is a new admission, and one
\* made while such a task is unsettled is deduplicated; enqueued counts the
\* former and deduplicated the latter.
C20_KeyReusableAfterSettlement ==
  /\ \A c \in DOMAIN calls :
       calls[c].kind # "rejected" =>
         /\ calls[c].seen = NoTask => calls[c].kind = "admitted"
         /\ calls[c].seen # NoTask => calls[c].kind = "deduplicated"
  /\ stats.enqueued =
       Cardinality({c \in DOMAIN calls :
                      calls[c].kind # "rejected" /\ calls[c].seen = NoTask})
  /\ stats.deduplicated =
       Cardinality({c \in DOMAIN calls :
                      calls[c].kind # "rejected" /\ calls[c].seen # NoTask})

\* The calls enqueue accepted: all but those it rejected for shutdown.
Accepted == {c \in DOMAIN calls : calls[c].kind # "rejected"}

\* C21: enqueued + deduplicated is the number of accepted enqueue calls, made
\* from outside or from inside a task function: enqueued counts the calls that
\* were admitted, deduplicated those that were deduplicated, and a rejected
\* call is in neither.
C21_AcceptedCallsCountedOnce ==
  /\ stats.enqueued + stats.deduplicated = Cardinality(Accepted)
  /\ stats.enqueued =
       Cardinality({c \in Accepted : calls[c].kind = "admitted"})
  /\ stats.deduplicated =
       Cardinality({c \in Accepted : calls[c].kind = "deduplicated"})
  /\ Len(tasks) = stats.enqueued

\* One call was admitted and a second call with its key, made while the
\* task was executing, was deduplicated.
C21_Witness ==
  /\ Len(calls) = 2
  /\ calls[1].kind = "admitted"
  /\ calls[2].kind = "deduplicated"
  /\ calls[2].seen = calls[1].task
  /\ stats.enqueued = 1
  /\ stats.deduplicated = 1

\* The tasks waiting in the pending queue.
Queued == {t \in DOMAIN tasks : tasks[t].st = "queued"}

\* C22: in every reachable state stats.pending is the length of the pending
\* queue, which holds exactly the queued tasks, and stats.running is the
\* number of tasks that executeTask has started and not finished; neither is
\* negative, and both are 0 when no task is queued or executing.
C22_PendingAndRunningAreLive ==
  /\ stats.pending = Len(pendingQueue)
  /\ {pendingQueue[i] : i \in DOMAIN pendingQueue} = Queued
  /\ Len(pendingQueue) = Cardinality(Queued)
  /\ stats.running = Cardinality(Executing)
  /\ stats.running = runningTasksCount
  /\ stats.running >= 0 /\ stats.pending >= 0
  /\ (Queued = {} /\ Executing = {}) => (stats.running = 0 /\ stats.pending = 0)

\* With concurrencyLimit 1 one task is executing and one waits in the queue.
C22_Witness ==
  /\ concurrencyLimit = 1
  /\ stats.running = 1
  /\ stats.pending = 1
  /\ Cardinality(Executing) = 1
  /\ Cardinality(Queued) = 1

\* C23: a step in which a task fails terminally adds 1 to failed, takes that
\* task out of execution and releases its slot (runningTasksCount goes down by
\* 1 and up by 1 for every task the step starts), starts the head of the
\* pending queue if there is one, and leaves every other task's execution
\* and outcome alone (a queued task is dropped in that step only when a task
\* the step starts calls shutdown); a settled task always carries its own
\* outcome.
C23_FailureIsContained ==
  /\ [][\A t \in DOMAIN tasks :
          (tasks[t].result = Pending /\ t \in Failed') =>
            /\ stats'.failed = stats.failed + 1
            /\ t \in Executing
            /\ tasks'[t].st = "done"
            /\ runningTasksCount' =
                 runningTasksCount - 1
                   + Cardinality({u \in DOMAIN tasks' : tasks'[u].started > 0})
                   - Cardinality({u \in DOMAIN tasks : tasks[u].started > 0})
            /\ pendingQueue # <<>> => tasks'[Head(pendingQueue)].started > 0
            /\ \A u \in DOMAIN tasks \ {t} :
                 /\ tasks'[u].result = tasks[u].result
                 /\ u \in Executing => tasks'[u].st = tasks[u].st
                 /\ \/ tasks'[u].st # "dropped"
                    \/ u \in Dropped
                    \/ \E v \in Started(State') \ Started(State) :
                         tasks'[v].sync = SyncShutdown
       ]_vars
  /\ [](\A t \in DOMAIN tasks :
          tasks[t].result.kind \in {"value", "TaskError"} => tasks[t].result.task = t)

\* With concurrencyLimit 1 the first task has failed and the second, with
\* another key, was then started and fulfilled.
C23_Witness ==
  /\ concurrencyLimit = 1
  /\ Len(tasks) = 2
  /\ tasks[1].key # tasks[2].key
  /\ tasks[1].result = TaskError(1, 1)
  /\ tasks[2].started = 2
  /\ tasks[2].result = Value(2, 1)
  /\ stats.failed = 1
  /\ stats.completed = 1
  /\ stats.running = 0

\* C24: when shutdown is never invoked, the event loop keeps running and
\* every promise of a task function settles, every admitted task is started
\* and its promise settles with a value or with an error: again and again,
\* all the tasks admitted so far have been started and have settled.
C24_NoStarvationWithoutShutdown ==
  ([]~isShuttingDown) =>
    []<>(\A t \in DOMAIN tasks :
           /\ tasks[t].started > 0
           /\ tasks[t].result.kind \in {"value", "TaskError", "UnknownError"})

\* Without shutdown and with concurrencyLimit 1, a task that waited in the
\* queue behind the first one was started second and has settled.
C24_Witness ==
  /\ ~isShuttingDown
  /\ concurrencyLimit = 1
  /\ Len(tasks) = 2
  /\ tasks[1].sync.op = "enqueue"
  /\ tasks[2].started = 2
  /\ Settled(1) /\ Settled(2)
  /\ microtasks = <<>>

\* What the holder of the reference returned by the i-th getStats call reads
\* through it.
Read(h, internal, i) ==
  IF h.returned[i] = StatsObject THEN internal
  ELSE h.objects[h.returned[i]]

View(i) == Read(heap, stats, i)

\* C25: every getStats call returns a reference to an object of its own, not
\* this.stats and not an object returned before; the call changes nothing of
\* the scheduler and the object it returns holds the counters of that moment;
\* a step that changes what one holder reads changes neither the scheduler's
\* counters nor what another holder reads, and a step of the scheduler
\* changes no snapshot; the counters never take a value a holder wrote.
C25_SnapshotsAreIndependent ==
  /\ [](\A i, j \in DOMAIN heap.returned :
          /\ heap.returned[i] # StatsObject
          /\ i # j => heap.returned[i] # heap.returned[j])
  /\ [](\A f \in DOMAIN stats : stats[f] >= 0)
  /\ [][Len(heap.returned') > Len(heap.returned) =>
          /\ UNCHANGED <<concurrencyLimit, runningTasksCount, pendingQueue,
                         runningTasks, isShuttingDown, stats, tasks, calls,
                         shutdowns, microtasks>>
          /\ Read(heap', stats', Len(heap'.returned)) = stats
          /\ \A i \in DOMAIN heap.returned : View(i)' = View(i)
       ]_vars
  /\ [][\A i \in DOMAIN heap.returned :
          View(i)' # View(i) =>
            /\ stats' = stats
            /\ \A j \in DOMAIN heap.returned \ {i} : View(j)' = View(j)
       ]_vars

\* Two snapshots were taken after an admission; the holder of the first
\* wrote to it, and the second and the scheduler's counters still read 1.
C25_Witness ==
  /\ Len(heap.returned) = 2
  /\ View(1).enqueued = -1
  /\ View(2).enqueued = 1
  /\ stats.enqueued = 1

\* C26: a step in which enqueue admits a task whose function, called in that
\* same step, calls enqueue with the task's own key, ends with the inner call
\* deduplicated against the new task: one task more, not two.
C26_KeyRegisteredBeforeDispatch ==
  [][\A key \in Keys, config \in Configs :
       (Enqueue(key, config, SyncEnqueue(key)) /\ Len(calls') = Len(calls) + 2) =>
         /\ calls'[Len(calls) + 1].kind = "admitted"
         /\ calls'[Len(calls) + 2].kind = "deduplicated"
         /\ calls'[Len(calls) + 2].task = calls'[Len(calls) + 1].task
         /\ Len(tasks') = Len(tasks) + 1
    ]_vars

\* C27: in every reachable state every admitted task is in exactly one of
\* five places: queued, executing, fulfilled, failed, or drained by shutdown;
\* pending, running, completed and failed count the first four, so that
\* enqueued = completed + failed + running + pending + d with d the number of
\* drained tasks, and cancelled = d + the number of rejected enqueue calls.
C27_EveryTaskAccountedOnce ==
  /\ stats.enqueued = Len(tasks)
  /\ \A t \in DOMAIN tasks :
       Cardinality({S \in {Queued, Executing, Succeeded, Failed, Dropped} : t \in S}) = 1
  /\ stats.pending = Cardinality(Queued)
  /\ stats.running = Cardinality(Executing)
  /\ stats.completed = Cardinality(Succeeded)
  /\ stats.failed = Cardinality(Failed)
  /\ stats.enqueued =
       stats.completed + stats.failed + stats.running + stats.pending
         + Cardinality(Dropped)
  /\ stats.cancelled = Cardinality(Dropped) + Cardinality(Rejected)

\* Two tasks were admitted; shutdown drained the queued one and the running
\* one has failed: enqueued 2 = failed 1 + drained 1, cancelled 1.
C27_Witness ==
  /\ stats.enqueued = 2
  /\ stats.failed = 1
  /\ stats.completed = 0
  /\ stats.running = 0
  /\ stats.pending = 0
  /\ stats.cancelled = 1
  /\ Cardinality(Dropped) = 1

\* C28: in every reachable state, if a task waits in the pending queue then
\* concurrencyLimit tasks are executing: runningTasksCount, stats.running and
\* the number of tasks mid-execution all equal concurrencyLimit.
C28_NoIdleSlotWhileQueued ==
  pendingQueue # <<>> =>
    /\ runningTasksCount = concurrencyLimit
    /\ stats.running = concurrencyLimit
    /\ Cardinality(Executing) = concurrencyLimit

\* A task has finished, its slot was handed to the next task in line and
\* another task still waits in the queue.
C28_Witness ==
  /\ pendingQueue # <<>>
  /\ runningTasksCount = concurrencyLimit
  /\ \E t \in DOMAIN tasks : tasks[t].st = "done"

\* C29: whatever configuration was passed to enqueue, a task counted as failed
\* (its promise rejected by executeTask's catch) had its task function invoked
\* at least once.
C29_FailedOnlyAfterAnAttempt ==
  \A t \in Failed : tasks[t].invoked > 0

\* The tasks whose promise a step settles.
SettledInStep == {t \in DOMAIN tasks : tasks[t].result = Pending /\ tasks'[t].result # Pending}

\* The success and failure exits of executeTask: a step that settles a task's
\* promise takes 1 off runningTasksCount (and adds 1 for every task the step
\* starts), keeps stats.running equal to it, and has re-run processQueue: the
\* head of the pending queue was started, and no slot is left free while a
\* task waits.
SettlingExitsReleaseSlot ==
  [][SettledInStep # {} =>
       /\ SettledInStep \subseteq Executing
       /\ runningTasksCount' =
            runningTasksCount - Cardinality(SettledInStep)
              + Cardinality(Started(State')) - Cardinality(Started(State))
       /\ stats'.running = runningTasksCount'
       /\ pendingQueue # <<>> => Head(pendingQueue) \in Started(State')
       /\ pendingQueue' # <<>> => runningTasksCount' = concurrencyLimit
    ]_vars

\* executeTask called, once shutdown has begun, for a task that had been
\* waiting in the queue (the branch on isShuttingDown).
CancelledAtDispatch(t) == executeTask(State, t)

Sleeping == {t \in DOMAIN tasks : tasks[t].st = "sleeping"}

\* The enqueue calls made in a step.
NewCalls == (DOMAIN calls') \ (DOMAIN calls)

\* C31: a task that sleeps between two attempts is counted in
\* runningTasksCount and its key is in runningTasks; with concurrencyLimit 1 it
\* is the only task in execution; and an enqueue call with its key that is made
\* while it sleeps, and is not rejected for shutdown, is deduplicated.
C31_SleepingTaskKeepsSlotAndKey ==
  /\ [](\A t \in Sleeping :
          /\ runningTasksCount = Cardinality(Executing)
          /\ runningTasks[tasks[t].key] # NoTask
          /\ concurrencyLimit = 1 => Executing = {t})
  /\ [][\A t \in Sleeping, c \in NewCalls :
          (tasks'[t].st = "sleeping" /\ calls'[c].key = tasks[t].key
             /\ calls'[c].kind # "rejected")
            => calls'[c].kind = "deduplicated"
       ]_vars

\* C32: in every step taken while a task sleeps between two attempts (and
\* goes on sleeping), an enqueue call is rejected only if shutdown had begun,
\* and otherwise joins a task that is then started or waits behind a full
\* gate; another task whose promise settles gives its slot back; and no slot
\* is left free while a task waits in the queue.
C32_SchedulerRunsDuringBackoff ==
  [][\A t \in Sleeping : tasks'[t].st = "sleeping" =>
       /\ \A c \in NewCalls :
            /\ calls'[c].kind = "rejected" <=> isShuttingDown
            /\ calls'[c].kind = "admitted" =>
                 \/ calls'[c].task \in Started(State')
                 \/ /\ tasks'[calls'[c].task].st \in {"queued", "dropped"}
                    /\ runningTasksCount' = concurrencyLimit
       /\ SettledInStep # {} =>
            /\ t \notin SettledInStep
            /\ runningTasksCount' =
                 runningTasksCount - Cardinality(SettledInStep)
                   + Cardinality(Started(State')) - Cardinality(Started(State))
       /\ pendingQueue' # <<>> => runningTasksCount' = concurrencyLimit
       /\ runningTasksCount' >= 1
    ]_vars

\* With concurrencyLimit 2, while the first task sleeps before its second
\* attempt, a task with another key was admitted, started and fulfilled, and
\* its slot is free again.
C32_Witness ==
  /\ concurrencyLimit = 2
  /\ Len(tasks) = 2
  /\ tasks[1].st = "sleeping"
  /\ tasks[1].sync = SyncNone
  /\ tasks[2].key # tasks[1].key
  /\ tasks[2].result = Value(2, 1)
  /\ runningTasksCount = 1
  /\ stats.completed = 1

\* C33: every enqueue call made once isShuttingDown is set is rejected,
\* whether or not its key is in runningTasks, and the step adds 1 to cancelled
\* for each such call and leaves the other counters, the pending queue,
\* runningTasks, runningTasksCount, and every task's promise and place alone.
C33_RejectedEnqueueOnlyCountsCancelled ==
  [][(isShuttingDown /\ NewCalls # {}) =>
       /\ \A c \in NewCalls :
            /\ calls'[c].kind = "rejected"
            /\ calls'[c].task = NoTask
       /\ stats' = [stats EXCEPT !.cancelled = @ + Cardinality(NewCalls)]
       /\ pendingQueue' = pendingQueue
       /\ runningTasks' = runningTasks
       /\ runningTasksCount' = runningTasksCount
       /\ DOMAIN tasks' = DOMAIN tasks
       /\ \A t \in DOMAIN tasks :
            /\ tasks'[t].result = tasks[t].result
            /\ (t \in Executing) = (t \in Executing')
            /\ (t \in Dropped) = (t \in Dropped')
       /\ microtasks' = microtasks
       /\ isShuttingDown'
    ]_vars

\* An enqueue call from outside was rejected while a task with its key was
\* waiting for its promise and the key was in runningTasks.
C33_Witness ==
  \E c \in DOMAIN calls :
    /\ calls[c].kind = "rejected"
    /\ calls[c].seen # NoTask
    /\ runningTasks[calls[c].key] = calls[c].seen
    /\ tasks[calls[c].seen].st = "awaiting"
    /\ tasks[calls[c].seen].sync = SyncNone
    /\ stats.cancelled = 1
    /\ stats.deduplicated = 0

\* C34: every delay slept is a number that is not negative, whatever the
\* jitter; and for a jitter J from 0 to 1 the delay slept after failed attempt
\* n is at least the rounded baseDelay * 2^(n-1) * (1 - J) and at most the
\* rounded baseDelay * 2^(n-1) * (1 + J).
C34_DelayWithinJitterBand ==
  \A n \in DOMAIN backoff.delays :
    LET exact == backoff.config.baseDelay[1] * Pow2(n - 1)
        J == backoff.config.jitter[1]
        d == backoff.delays[n]
    IN  /\ d # NaN
        /\ d[1] >= 0
        /\ (0 <= J /\ J <= Hundred) =>
             /\ Round(exact * (Hundred - J), TicksPerMs * Hundred) <= d[1]
             /\ d[1] <= Round(exact * (Hundred + J), TicksPerMs * Hundred)

\* With baseDelay 1000 and jitter 1 the first delay was 0 ms (Math.random()
\* returned 0: 1000 * (1 - 1)) and the second 3960 ms (Math.random() returned
\* 0.99: 2000 * (1 + 0.98)).
C34_Witness ==
  /\ backoff.config.baseDelay = Some(1000 * TicksPerMs)
  /\ backoff.config.jitter = Some(Hundred)
  /\ Len(backoff.delays) >= 2
  /\ backoff.delays[1] = Some(0)
  /\ backoff.delays[2] = Some(3960)

\* C35: a POST /scheduler/tasks request whose enqueue call was rejected
\* because shutdown had begun is answered with status CANCELLED, and every
\* other request with status PENDING.
C35_RejectedRequestAnswersCancelled ==
  \A r \in DOMAIN responses :
    responses[r].status =
      IF calls[responses[r].call].kind = "rejected" THEN "CANCELLED" ELSE "PENDING"

\* C36: the error a failed task's promise is rejected with is the value its
\* last attempt threw if that value is an Error (the same object), and
\* otherwise an Error made by the scheduler whose message is the string form
\* of the value; the task's promise is rejected by exactly that attempt.
C36_NonErrorsBecomeErrors ==
  \A f \in DOMAIN failures :
    LET e == failures[f]
    IN  /\ e.lastError.type = "Error"
        /\ e.rejected # NoValue =>
             /\ tasks[e.task].result = TaskError(e.task, e.attempt)
             /\ e.rejected.type = "Error"
             /\ e.value.type = "Error" => e.rejected = e.value
             /\ e.value.type # "Error" =>
                  e.rejected = ErrorObject(String(e.value), "scheduler")
             /\ e.value = NumberValue(42) => e.rejected.text = "42"
             /\ e.value = StringValue("boom") => e.rejected.text = "boom"
             /\ e.value = UndefinedValue => e.rejected.text = "undefined"

\* A task has failed after two attempts: the first threw an Error and the
\* second the number 42, and its promise was rejected with an Error made by the
\* scheduler whose message is "42".
C36_Witness ==
  \E f, g \in DOMAIN failures :
    /\ failures[f].task = failures[g].task
    /\ failures[f].attempt = 1
    /\ failures[f].value = ErrorObject("boom", "task")
    /\ failures[g].attempt = 2
    /\ failures[g].value = NumberValue(42)
    /\ failures[g].rejected = ErrorObject("42", "scheduler")
    /\ tasks[failures[g].task].result = TaskError(failures[g].task, 2)

\* The counters that only count up.
CumulativeCounters ==
  {"enqueued", "deduplicated", "completed", "failed", "retried", "cancelled"}

\* C37: no step of the scheduler lowers enqueued, deduplicated, completed,
\* failed, retried or cancelled, and no counter is ever negative; a step that
\* lowers a counter lowers running or pending.
C37_CumulativeCountersNeverDecrease ==
  /\ [][\A f \in CumulativeCounters : stats'[f] >= stats[f]]_vars
  /\ [][\A f \in DOMAIN stats :
          stats'[f] < stats[f] => f \in {"running", "pending"}]_vars
  /\ [](\A f \in DOMAIN stats : stats[f] >= 0)

\* After two admissions running and pending are back at 0 (one task retried
\* and completed, the other was drained by shutdown) while the cumulative
\* counters keep what they counted.
C37_Witness ==
  /\ stats.enqueued = 2
  /\ stats.retried = 1
  /\ stats.completed = 1
  /\ stats.cancelled = 1
  /\ stats.running = 0
  /\ stats.pending = 0

====
